---- MODULE Spec2Model ----
(***************************************************************************)
(* bevy_chess: the GamePlugin (src/src/lib.rs).                            *)
(*                                                                         *)
(* Angles are integers in ticks of 1e-4 rad (0.003 rad = 30 ticks, 0.2 rad *)
(* = 2000 ticks).  Mouse and drag deltas are whole pixels, elapsed time is *)
(* whole milliseconds.  An orientation is kept as its YXZ Euler triple     *)
(* (yaw, pitch, roll) with the yaw in (-PI, PI]: the triple that           *)
(* Quat::to_euler(EulerRot::YXZ) returns for the quaternion.               *)
(* A camera-relative vector is kept exactly, by its integer coefficients   *)
(* on the camera's forward and right axes and on Vec3::Y, together with    *)
(* the orientation that fixes those axes.                                  *)
(***************************************************************************)
EXTENDS Integers, Sequences, FiniteSets

VARIABLES
    pc,                  \* "built" | "running" | "panicked"
    update_systems,      \* the systems registered in the Update schedule
    frame,               \* number of Update frames run so far
    camera,              \* the Camera3d entity: [exists, transform]
    primary_window,      \* the PrimaryWindow entity: [exists, cursor_options]
    egui_context,        \* TRUE iff exactly one EguiContext entity exists
    mouse_button_input,  \* ButtonInput<MouseButton> for MouseButton::Middle
    keyboard_input,      \* ButtonInput<KeyCode>: the set of pressed keys
    mouse_input,         \* AccumulatedMouseMotion.delta, <<dx, dy>>
    time,                \* Time::delta_secs of the frame, in milliseconds
    wants_pointer_input, \* EguiContext::wants_pointer_input()
    scene,               \* the board's scene instance: "none" | "loading" | "spawned" | "failed"
    ready_count,         \* SceneInstanceReady triggers delivered to the board
    observers,           \* entity -> number of rotate_on_drag observers on it
    transforms,          \* entity -> Transform of the scene entities
    drag,                \* the last Pointer<Drag> trigger: [entity, delta, runs]
    drag_count,          \* number of drag events delivered
    materials            \* number of assets in Assets<StandardMaterial>

vars == <<pc, update_systems, frame, camera, primary_window, egui_context,
          mouse_button_input, keyboard_input, mouse_input, time,
          wants_pointer_input, scene, ready_count, observers, transforms,
          drag, drag_count, materials>>

inputVars == <<mouse_button_input, keyboard_input, mouse_input, time, wants_pointer_input>>
boardVars == <<scene, ready_count, observers, transforms, drag, drag_count, materials>>

-----------------------------------------------------------------------------
(* Bounds of the model *)

MaxFrames == 3
MaxMoveFrames == 1
MaxLookFrames == 3
MaxButtonEvents == 3
MaxReady == 2
MaxDrags == 2

-----------------------------------------------------------------------------
(* Angles *)

FRAC_PI_2 == 15708
PI == 2 * FRAC_PI_2
TAU == 2 * PI

\* const PITCH_LIMIT: f32 = FRAC_PI_2 - 0.01;
PitchLimitAtPole == FRAC_PI_2
PITCH_LIMIT == FRAC_PI_2 - 100

\* let delta_yaw = -delta.x * 0.003; let delta_pitch = -delta.y * 0.002;
YawPerPixel == 30
PitchPerPixel == 20
\* drag.delta.x * 0.02
DragPerPixel == 200
\* direction * 5.0 * time.delta_secs(): units per second
Speed == 5

\* f32::clamp
Clamp(x, lo, hi) == IF x < lo THEN lo ELSE IF x > hi THEN hi ELSE x

\* The angle in (-PI, PI] that names the same direction as a.
WrapAngle(a) == LET m == a % TAU IN IF m > PI THEN m - TAU ELSE m

\* Quat::from_euler(EulerRot::YXZ, yaw, pitch, roll), as the triple that to_euler
\* gives back for it.  With |pitch| < FRAC_PI_2 the triple is unique up to the
\* period of yaw and roll; at or beyond the poles the decomposition folds over.
FromEulerYXZ(yaw, pitch, roll) ==
    IF pitch > -FRAC_PI_2 /\ pitch < FRAC_PI_2
    THEN [yaw |-> WrapAngle(yaw), pitch |-> pitch, roll |-> WrapAngle(roll)]
    ELSE LET p == WrapAngle(pitch) IN
         IF p >= -FRAC_PI_2 /\ p <= FRAC_PI_2
         THEN [yaw |-> WrapAngle(yaw), pitch |-> p, roll |-> WrapAngle(roll)]
         ELSE [yaw |-> WrapAngle(yaw + PI),
               pitch |-> IF p > 0 THEN PI - p ELSE -PI - p,
               roll |-> WrapAngle(roll + PI)]

\* transform.rotation.to_euler(EulerRot::YXZ)
ToEulerYXZ(q) == <<q.yaw, q.pitch, q.roll>>

-----------------------------------------------------------------------------
(* Vectors and transforms *)

\* Vec3::ZERO on the axes (forward, right, Vec3::Y).  len says how the
\* coefficients are scaled: "raw" as written, "unit" divided by the vector's
\* length, "nan" divided by a length of zero.
ZERO == [f |-> 0, r |-> 0, y |-> 0, len |-> "raw"]

\* direction == Vec3::ZERO (direction != Vec3::ZERO negated).  The camera's
\* roll is 0 (looking_at with up = Vec3::Y, kept by move_camera), so right is
\* horizontal and forward . Y = sin(pitch): the three axes are independent
\* unless the camera looks straight up or down, where forward = +Y or -Y.
IsZero(d, rot) ==
    IF rot.pitch = FRAC_PI_2 THEN d.r = 0 /\ d.f + d.y = 0
    ELSE IF rot.pitch = -FRAC_PI_2 THEN d.r = 0 /\ d.f - d.y = 0
    ELSE d.f = 0 /\ d.r = 0 /\ d.y = 0

\* Vec3::normalize: the vector divided by its length (NaN for the zero vector).
NormalizeOmitted(d, rot) == d
Normalize(d, rot) ==
    IF IsZero(d, rot) THEN [d EXCEPT !.len = "nan"] ELSE [d EXCEPT !.len = "unit"]

\* translation += direction * dist, dist in 1/1000 unit.  Adding a finite
\* vector scaled by 0 leaves the translation as it is; NaN * 0 is NaN.
AddScaled(translation, d, rot, dist) ==
    IF dist = 0 /\ d.len # "nan" THEN translation
    ELSE [translation EXCEPT
            !.moves = Append(@, [dir |-> d, basis |-> rot, dist |-> dist])]

\* Transform::rotate_y(angle): rotation = Quat::from_rotation_y(angle) * rotation.
\* A rotation about the world Y axis applied last adds to the yaw of the YXZ
\* decomposition and leaves pitch and roll.
RotateYReplacing(rotation, angle) == FromEulerYXZ(angle, 0, 0)
RotateY(rotation, angle) ==
    FromEulerYXZ(rotation.yaw + angle, rotation.pitch, rotation.roll)

-----------------------------------------------------------------------------
(* Input resources *)

KeyCodes == {"KeyW", "KeyS", "KeyA", "KeyD", "KeyE", "KeyQ"}

\* ButtonInput<MouseButton> restricted to MouseButton::Middle.
\* ButtonInput::press / release / clear as the engine applies them: the frame's
\* events in order, after the edge flags of the last frame are cleared.
Press(b) ==
    IF b.pressed THEN b ELSE [b EXCEPT !.pressed = TRUE, !.just_pressed = TRUE]
Release(b) ==
    IF b.pressed THEN [b EXCEPT !.pressed = FALSE, !.just_released = TRUE] ELSE b
Clear(b) == [b EXCEPT !.just_pressed = FALSE, !.just_released = FALSE]

RECURSIVE ApplyEvents(_, _)
ApplyEvents(b, events) ==
    IF events = <<>> THEN b
    ELSE ApplyEvents(IF Head(events) = "press" THEN Press(b) ELSE Release(b),
                     Tail(events))

ButtonEventSeqs ==
    UNION {[1..n -> {"press", "release"}] : n \in 0..MaxButtonEvents}

\* The values the resource can have in the next frame.
ButtonFrames(b) == {ApplyEvents(Clear(b), s) : s \in ButtonEventSeqs}

-----------------------------------------------------------------------------
(* move_camera *)

\* if mouse_button_input.just_released(MouseButton::Middle) { if let Ok(window) .. }
CursorAfterReleaseStaysHidden(window, button) ==
    IF button.just_released /\ window.exists
    THEN [window EXCEPT !.cursor_options.grab_mode = "None"]
    ELSE window
CursorAfterRelease(window, button) ==
    IF button.just_released /\ window.exists
    THEN [window EXCEPT !.cursor_options = [grab_mode |-> "None", visible |-> TRUE]]
    ELSE window

\* if mouse_button_input.just_pressed(MouseButton::Middle)
\*     && !egui_context.get_mut().wants_pointer_input() { if let Ok(window) .. }
CursorAfterPressUngated(window, button, wants) ==
    IF button.just_pressed /\ window.exists
    THEN [window EXCEPT !.cursor_options = [grab_mode |-> "Locked", visible |-> FALSE]]
    ELSE window
CursorAfterPress(window, button, wants) ==
    IF button.just_pressed /\ ~wants /\ window.exists
    THEN [window EXCEPT !.cursor_options = [grab_mode |-> "Locked", visible |-> FALSE]]
    ELSE window

\* The two edge blocks in the order the function runs them.
CursorAfterEdgesPressFirst(window, button, wants) ==
    CursorAfterRelease(CursorAfterPress(window, button, wants), button)
CursorAfterEdges(window, button, wants) ==
    CursorAfterPress(CursorAfterRelease(window, button), button, wants)

\* if let Ok(window) = window.get_single_mut() {
\*     if window.cursor_options.grab_mode != CursorGrabMode::Locked { return; } }
MotionNeverSkipped(window) == FALSE
MotionSkipped(window) ==
    window.exists /\ window.cursor_options.grab_mode # "Locked"

\* let mut direction = Vec3::ZERO; then one += or -= for each pressed key.
KeyDirection(keys) ==
    [ZERO EXCEPT
        !.f = (IF "KeyW" \in keys THEN 1 ELSE 0) - (IF "KeyS" \in keys THEN 1 ELSE 0),
        !.r = (IF "KeyD" \in keys THEN 1 ELSE 0) - (IF "KeyA" \in keys THEN 1 ELSE 0),
        !.y = (IF "KeyE" \in keys THEN 1 ELSE 0) - (IF "KeyQ" \in keys THEN 1 ELSE 0)]

\* if direction != Vec3::ZERO { direction = direction.normalize();
\*     transform.translation += direction * 5.0 * time.delta_secs(); }
Translated(transform, keys, dt) ==
    LET direction == KeyDirection(keys) IN
    IF ~IsZero(direction, transform.rotation)
    THEN [transform EXCEPT
            !.translation = AddScaled(@, Normalize(direction, transform.rotation),
                                      transform.rotation, Speed * dt)]
    ELSE transform

\* if delta != Vec2::ZERO { .. transform.rotation = Quat::from_euler(..) }
Looked(transform, delta) ==
    IF delta # <<0, 0>>
    THEN LET delta_yaw == -delta[1] * YawPerPixel
             delta_pitch == -delta[2] * PitchPerPixel
             e == ToEulerYXZ(transform.rotation)
             yaw == e[1] + delta_yaw
             pitch == Clamp(e[2] + delta_pitch, -PITCH_LIMIT, PITCH_LIMIT)
         IN [transform EXCEPT !.rotation = FromEulerYXZ(yaw, pitch, e[3])]
    ELSE transform

\* for mut transform in &mut camera { .. }: every Camera3d entity, none if there is none.
Integrated(cam, keys, delta, dt) ==
    IF cam.exists
    THEN [cam EXCEPT !.transform = Looked(Translated(@, keys, dt), delta)]
    ELSE cam

\* let mut egui_context = egui_context.get_single_mut().unwrap();
EguiLookupNeverPanics == FALSE
EguiLookupPanics == ~egui_context

\* One run of move_camera on the frame's input resources.
move_camera(button, keys, delta, dt, wants) ==
    IF EguiLookupPanics
    THEN \* the unwrap panics before anything is written
         /\ pc' = "panicked"
         /\ UNCHANGED <<camera, primary_window>>
    ELSE LET window == CursorAfterEdges(primary_window, button, wants) IN
         /\ pc' = pc
         /\ primary_window' = window
         /\ camera' = IF MotionSkipped(window) THEN camera
                      ELSE Integrated(camera, keys, delta, dt)

-----------------------------------------------------------------------------
(* The world after Startup *)

\* Window::default().cursor_options
DefaultWindow(exists) ==
    [exists |-> exists, cursor_options |-> [grab_mode |-> "None", visible |-> TRUE]]

\* Transform::from_translation(Vec3::new(0.0, 1.5, 1.5)).looking_at(Vec3::ZERO, Vec3::Y):
\* forward = (0, -1, -1) / sqrt 2, so yaw 0, pitch -PI/4, roll 0.
setup_camera(exists) ==
    [exists |-> exists,
     transform |-> [translation |-> [origin |-> <<0, 15, 15>>, moves |-> <<>>],
                    rotation |-> [yaw |-> 0, pitch |-> -(FRAC_PI_2 \div 2), roll |-> 0]]]

NoInput ==
    /\ mouse_button_input = [pressed |-> FALSE, just_pressed |-> FALSE, just_released |-> FALSE]
    /\ keyboard_input = {}
    /\ mouse_input = <<0, 0>>
    /\ time = 0
    /\ wants_pointer_input = FALSE

-----------------------------------------------------------------------------
(* The board *)

\* The entities of the world: the board (SceneRoot), the nodes and mesh
\* primitives its scene instance brings, and the camera and the light.
\* A glTF scene puts Mesh3d on the leaf primitive entities under its nodes.
SceneEntities == {"node_a", "node_b", "node_c", "mesh_a", "mesh_b"}
Entities == {"board", "camera", "light"} \cup SceneEntities

\* Query<&Children>, once the scene instance is spawned
SceneChildren(e) ==
    CASE e = "board"  -> {"node_a", "node_b"}
      [] e = "node_a" -> {"mesh_a"}
      [] e = "node_b" -> {"mesh_b", "node_c"}
      [] OTHER        -> {}

Children(e) == IF scene = "spawned" THEN SceneChildren(e) ELSE {}

\* Query<&Mesh3d>
Mesh3ds == {"mesh_a", "mesh_b"}

\* children.iter_descendants(entity)
RECURSIVE DescendantsFrom(_, _)
DescendantsFrom(es, n) ==
    IF n = 0 \/ es = {} THEN {}
    ELSE LET cs == UNION {Children(e) : e \in es} IN cs \cup DescendantsFrom(cs, n - 1)

Descendants(e) == DescendantsFrom({e}, Cardinality(Entities))

\* if mesh3ds.get(child).is_ok() { commands.entity(child).observe(rotate_on_drag); }
AttachToEveryDescendant(e) == Descendants(e)
AttachTargets(e) == {child \in Descendants(e) : child \in Mesh3ds}

\* The Transform the scene gives each of its entities.
SceneTransform(e) ==
    [translation |-> <<0, 0, 0>>,
     rotation |-> IF e = "mesh_b" THEN [yaw |-> 7000, pitch |-> 3000, roll |-> 0]
                  ELSE [yaw |-> 0, pitch |-> 0, roll |-> 0],
     scale |-> <<1, 1, 1>>]

\* fn rotate_on_drag: transform.rotate_y(drag.delta.x * 0.02)
rotate_on_drag(transform, delta) ==
    [transform EXCEPT !.rotation = RotateY(@, delta * DragPerPixel)]

\* The engine runs every observer the target carries, one after the other.
RECURSIVE RunObservers(_, _, _)
RunObservers(transform, delta, n) ==
    IF n = 0 THEN transform
    ELSE RunObservers(rotate_on_drag(transform, delta), delta, n - 1)

DragDeltas == {10, -4}

-----------------------------------------------------------------------------
(* The application built by GamePlugin *)

\* app.add_systems(Update, (/*move_camera,*/draw_mesh_intersections));
UpdateSystems == {"draw_mesh_intersections"}

NoBoard ==
    /\ scene = "none"
    /\ ready_count = 0
    /\ observers = [e \in Entities |-> 0]
    /\ transforms = [e \in SceneEntities |-> SceneTransform(e)]
    /\ drag = [entity |-> "none", delta |-> 0, runs |-> 0]
    /\ drag_count = 0
    /\ materials = 0

\* After GamePlugin::build: the window plugin has its primary window (and the
\* inspector's egui context), no Startup system has run.
Init ==
    /\ pc = "built"
    /\ update_systems = UpdateSystems
    /\ frame = 0
    /\ camera = setup_camera(FALSE)
    /\ primary_window = DefaultWindow(TRUE)
    /\ egui_context = TRUE
    /\ NoInput
    /\ NoBoard

\* Startup: setup_camera, setup_lights, setup_board
Startup ==
    /\ pc = "built"
    /\ pc' = "running"
    /\ camera' = setup_camera(TRUE)
    /\ scene' = "loading"
    /\ UNCHANGED <<update_systems, frame, primary_window, egui_context, inputVars,
                   ready_count, observers, transforms, drag, drag_count, materials>>

\* The engine refreshes the input resources of the frame.
SetInput(button, keys, delta, dt, wants) ==
    /\ mouse_button_input' = button
    /\ keyboard_input' = keys
    /\ mouse_input' = delta
    /\ time' = dt
    /\ wants_pointer_input' = wants

AppKeys == {{}, {"KeyW"}}
AppMotions == {<<0, 0>>, <<100, -50>>}
AppTimes == {16}

\* One pass of the Update schedule: the systems registered in it run on the
\* frame's input.  draw_mesh_intersections draws gizmos only.
Update ==
    /\ pc = "running"
    /\ frame < MaxFrames
    /\ frame' = frame + 1
    /\ \E button \in ButtonFrames(mouse_button_input), keys \in AppKeys,
          delta \in AppMotions, dt \in AppTimes, wants \in BOOLEAN :
          /\ SetInput(button, keys, delta, dt, wants)
          /\ IF "move_camera" \in update_systems
             THEN move_camera(button, keys, delta, dt, wants)
             ELSE UNCHANGED <<pc, camera, primary_window>>
    /\ UNCHANGED <<update_systems, egui_context, boardVars>>

\* The asset server finishes loading ChessBoard.glb and the scene is spawned
\* under the board.
SceneSpawned ==
    /\ pc = "running"
    /\ scene = "loading"
    /\ scene' = "spawned"
    /\ UNCHANGED <<pc, update_systems, frame, camera, primary_window, egui_context,
                   inputVars, ready_count, observers, transforms, drag, drag_count,
                   materials>>

\* The asset fails to load: no scene instance, no SceneInstanceReady.
AssetLoadFailed ==
    /\ pc = "running"
    /\ scene = "loading"
    /\ scene' = "failed"
    /\ UNCHANGED <<pc, update_systems, frame, camera, primary_window, egui_context,
                   inputVars, ready_count, observers, transforms, drag, drag_count,
                   materials>>

\* fn on_board_added, run for a SceneInstanceReady trigger on the board
on_board_added ==
    /\ pc = "running"
    /\ scene = "spawned"
    /\ ready_count < MaxReady
    /\ ready_count' = ready_count + 1
    /\ materials' = materials + 4
    /\ observers' = [e \in Entities |->
                        IF e \in AttachTargets("board") THEN observers[e] + 1
                        ELSE observers[e]]
    /\ UNCHANGED <<pc, update_systems, frame, camera, primary_window, egui_context,
                   inputVars, scene, transforms, drag, drag_count>>

\* A Pointer<Drag> trigger on a picked mesh entity.
PointerDrag ==
    /\ pc = "running"
    /\ scene = "spawned"
    /\ drag_count < MaxDrags
    /\ drag_count' = drag_count + 1
    /\ \E e \in Mesh3ds, delta \in DragDeltas :
          /\ drag' = [entity |-> e, delta |-> delta, runs |-> observers[e]]
          /\ transforms' = [transforms EXCEPT
                              ![e] = RunObservers(@, delta, observers[e])]
    /\ UNCHANGED <<pc, update_systems, frame, camera, primary_window, egui_context,
                   inputVars, scene, ready_count, observers, materials>>

Next ==
    \/ Startup
    \/ Update
    \/ SceneSpawned
    \/ AssetLoadFailed
    \/ on_board_added
    \/ PointerDrag

Spec == Init /\ [][Next]_vars

-----------------------------------------------------------------------------
(* move_camera run once per frame on a world after Startup *)

\* The world move_camera runs on is the one Startup left, less the entities
\* despawned since: it may lack the camera, the primary window or the egui
\* context, the three lookups the system makes.
InitController(worlds) ==
    /\ pc = "running"
    /\ update_systems = UpdateSystems
    /\ frame = 0
    /\ \E w \in worlds :
          /\ camera = setup_camera(w[1])
          /\ primary_window = DefaultWindow(w[2])
          /\ egui_context = w[3]
    /\ NoInput
    /\ NoBoard

ControllerFrame(keySets, motions, times, wantSet, limit) ==
    /\ pc = "running"
    /\ frame < limit
    /\ frame' = frame + 1
    /\ \E button \in ButtonFrames(mouse_button_input), keys \in keySets,
          delta \in motions, dt \in times, wants \in wantSet :
          /\ SetInput(button, keys, delta, dt, wants)
          /\ move_camera(button, keys, delta, dt, wants)
    /\ UNCHANGED <<update_systems, egui_context, boardVars>>

AnyWorld == BOOLEAN \X BOOLEAN \X BOOLEAN
FullWorld == {<<TRUE, TRUE, TRUE>>}

InitAny == InitController(AnyWorld)
InitFull == InitController(FullWorld)

NextController ==
    ControllerFrame({{}, {"KeyW"}}, {<<0, 0>>, <<100, -50>>}, {16}, BOOLEAN, MaxFrames)
SpecController == InitAny /\ [][NextController]_vars

NextLook ==
    ControllerFrame({{}}, {<<0, 0>>, <<0, 600>>, <<120, -600>>, <<-40, 0>>}, {16},
                    {FALSE}, MaxLookFrames)
SpecLook == InitFull /\ [][NextLook]_vars

NextMove ==
    ControllerFrame(SUBSET KeyCodes, {<<0, 0>>, <<100, -50>>}, {16, 33}, {FALSE},
                    MaxMoveFrames)
SpecMove == InitFull /\ [][NextMove]_vars

-----------------------------------------------------------------------------
(* Properties *)

FrameRan == frame' = frame + 1
Released(window) == window.cursor_options = [grab_mode |-> "None", visible |-> TRUE]
Engaged(window) == window.cursor_options = [grab_mode |-> "Locked", visible |-> FALSE]
CursorMirrors(window) ==
    window.cursor_options.visible <=> window.cursor_options.grab_mode # "Locked"
QualifyingPress(button, wants) == button.just_pressed /\ ~wants
Completed == FrameRan /\ pc' = "running"

\* C1: from the initial window state (grab mode None, cursor visible), a frame
\* that reports the press edge of the middle button while the UI does not want
\* the pointer ends with the cursor Locked, and a frame that reports its release
\* edge (and no such press) ends with it None again; in every state the cursor
\* is hidden exactly when the grab mode is Locked.
C1_EngagementToggling ==
    [][/\ (frame = 0 /\ primary_window.exists) => Released(primary_window)
       /\ CursorMirrors(primary_window)
       /\ CursorMirrors(primary_window')
       /\ (Completed /\ primary_window.exists) =>
             /\ QualifyingPress(mouse_button_input', wants_pointer_input')
                   => Engaged(primary_window')
             /\ (/\ mouse_button_input'.just_released
                 /\ ~QualifyingPress(mouse_button_input', wants_pointer_input'))
                   => Released(primary_window')]_vars

\* The toggle has gone None -> Locked -> None: the camera has moved (it only
\* moves while the window's cursor is Locked) and the frame of the release
\* edge has left the cursor released.
C1_Witness ==
    /\ primary_window.exists
    /\ Released(primary_window)
    /\ mouse_button_input.just_released
    /\ ~mouse_button_input.just_pressed
    /\ camera.exists
    /\ camera.transform.translation.moves # <<>>

\* C2: in the application GamePlugin builds, every Update frame runs
\* move_camera: the system is in the Update schedule, and a frame that reports
\* the press edge while the UI does not want the pointer locks the cursor.
C2_ControllerRunsEveryFrame ==
    [][FrameRan =>
         /\ "move_camera" \in update_systems
         /\ (/\ primary_window.exists
             /\ QualifyingPress(mouse_button_input', wants_pointer_input'))
               => Engaged(primary_window')]_vars

\* C3 as claimed: every frame that reports the press edge while the UI wants
\* the pointer leaves grab mode and visibility as they were, and leaves the
\* cursor released, whatever came before.
C3_SuppressionAsClaimed ==
    [][(/\ Completed
        /\ primary_window.exists
        /\ mouse_button_input'.just_pressed
        /\ wants_pointer_input') =>
          /\ primary_window'.cursor_options = primary_window.cursor_options
          /\ Released(primary_window')]_vars

\* C3 amended: a frame that reports the press edge while the UI wants the
\* pointer never locks the cursor: without a release edge in the same frame,
\* grab mode and visibility are unchanged; with one, the cursor ends released;
\* so a cursor that was released at the start of the frame stays released.
C3_Suppression ==
    [][(/\ Completed
        /\ primary_window.exists
        /\ mouse_button_input'.just_pressed
        /\ wants_pointer_input') =>
          /\ ~mouse_button_input'.just_released
                => primary_window'.cursor_options = primary_window.cursor_options
          /\ mouse_button_input'.just_released => Released(primary_window')
          /\ Released(primary_window) => Released(primary_window')]_vars

\* A suppressed press: the button went down, the UI wanted the pointer, and
\* the cursor is still released.
C3_Witness ==
    /\ frame > 0
    /\ pc = "running"
    /\ primary_window.exists
    /\ egui_context
    /\ mouse_button_input.just_pressed
    /\ mouse_button_input.pressed
    /\ ~mouse_button_input.just_released
    /\ wants_pointer_input
    /\ Released(primary_window)

\* C4 as claimed: every frame that reports the release edge ends with the
\* cursor None and visible, whatever else the frame reports, so the cursor is
\* never Locked while the button is not held.
C4_ReleaseAsClaimed ==
    [][/\ (/\ Completed
           /\ primary_window.exists
           /\ mouse_button_input'.just_released) => Released(primary_window')
       /\ (/\ primary_window'.exists
           /\ primary_window'.cursor_options.grab_mode = "Locked")
             => mouse_button_input'.pressed]_vars

\* C4 amended: a frame that reports the release edge ends with the cursor None
\* and visible unless it also reports a press edge while the UI does not want
\* the pointer; then the press is applied after the release and the cursor
\* ends Locked and hidden, also when the button is no longer held.  A cursor
\* becomes Locked with the button not held only in a frame reporting both edges.
C4_ReleaseDisengages ==
    [][(Completed /\ primary_window.exists) =>
          /\ mouse_button_input'.just_released =>
                IF QualifyingPress(mouse_button_input', wants_pointer_input')
                THEN Engaged(primary_window')
                ELSE Released(primary_window')
          /\ (/\ Engaged(primary_window')
              /\ ~mouse_button_input'.pressed
              /\ ~(Engaged(primary_window) /\ ~mouse_button_input.pressed))
                => (/\ mouse_button_input'.just_pressed
                    /\ mouse_button_input'.just_released)]_vars

\* Press and release in one frame: both edges reported, the button is up, the
\* cursor is Locked.
C4_Witness ==
    /\ frame > 0
    /\ primary_window.exists
    /\ mouse_button_input.just_released
    /\ mouse_button_input.just_pressed
    /\ ~mouse_button_input.pressed
    /\ ~wants_pointer_input
    /\ Engaged(primary_window)

\* C5: from the pose setup_camera gives the camera, after any sequence of
\* frames with any mouse deltas, the camera's pitch lies in
\* [-(PI/2 - 0.01), PI/2 - 0.01], bounds included.
C5_PitchClamped ==
    camera.exists =>
        /\ camera.transform.rotation.pitch >= -(FRAC_PI_2 - 100)
        /\ camera.transform.rotation.pitch <= FRAC_PI_2 - 100

\* The clamp has acted: the pitch sits on the upper bound.
C5_Witness ==
    /\ frame > 0
    /\ camera.exists
    /\ camera.transform.rotation.pitch = FRAC_PI_2 - 100
    /\ mouse_input[2] < 0

DragDelivered == drag_count' = drag_count + 1

\* The rotation that is `rotation` turned by `angle` about the world Y axis.
TurnedAboutY(rotation, angle) ==
    [yaw |-> WrapAngle(rotation.yaw + angle), pitch |-> rotation.pitch,
     roll |-> rotation.roll]

OnlyRotated(e, angle) ==
    /\ transforms'[e].rotation = TurnedAboutY(transforms[e].rotation, angle)
    /\ transforms'[e].translation = transforms[e].translation
    /\ transforms'[e].scale = transforms[e].scale
    /\ \A o \in SceneEntities \ {e} : transforms'[o] = transforms[o]

\* C6 as claimed: every drag event with horizontal delta d on an entity that
\* reacts to drags adds exactly d * 0.02 rad about the world vertical axis to
\* the entity's orientation and changes nothing else.
C6_DragAsClaimed ==
    [][(DragDelivered /\ observers[drag'.entity] >= 1) =>
          OnlyRotated(drag'.entity, drag'.delta * 200)]_vars

\* C6 amended: a drag event with horizontal delta d rotates its target once
\* for each drag behaviour the target carries, each time by d * 0.02 rad about
\* the world vertical axis on top of the orientation it has: d * 0.02 with one
\* behaviour, k * d * 0.02 with k, nothing with none; translation, scale and
\* every other entity's transform are unchanged.
C6_DragRotation ==
    [][DragDelivered =>
          OnlyRotated(drag'.entity, observers[drag'.entity] * drag'.delta * 200)]_vars

\* A drag of 10 on the tilted piece, carrying one behaviour, from its orientation
\* in the scene: 0.2 rad more yaw, the pitch kept.
C6_Witness ==
    /\ drag = [entity |-> "mesh_b", delta |-> 10, runs |-> 1]
    /\ drag_count = 1
    /\ transforms["mesh_b"].rotation = [yaw |-> 9000, pitch |-> 3000, roll |-> 0]

\* The descendants of the board that carry geometry.
BoardMeshParts == {e \in Entities : e \in Mesh3ds /\ e \in Descendants("board")}
Inert ==
    /\ \A e \in Entities : observers[e] = 0
    /\ transforms = [e \in SceneEntities |-> SceneTransform(e)]

\* C7 as claimed: nothing reacts to drags before the scene-ready signal; once
\* it has been handled, however often, every descendant of the board with
\* geometry carries exactly one drag behaviour and nothing else carries any;
\* without the signal the board stays inert.
C7_AttachmentAsClaimed ==
    /\ ready_count = 0 => Inert
    /\ scene # "spawned" => ready_count = 0
    /\ ready_count >= 1 =>
          \A e \in Entities : observers[e] = IF e \in BoardMeshParts THEN 1 ELSE 0

\* C7 amended: nothing reacts to drags before the scene-ready signal; each
\* handling of the signal attaches one drag behaviour to every descendant of
\* the board with geometry, so after n deliveries each carries n (exactly one
\* after the first), and descendants without geometry and entities outside the
\* subtree carry none; without the signal the board stays inert.
C7_Attachment ==
    /\ ready_count = 0 => Inert
    /\ scene # "spawned" => ready_count = 0
    /\ \A e \in Entities :
          observers[e] = IF e \in BoardMeshParts THEN ready_count ELSE 0

\* The signal has been handled once and a drag has met the one behaviour.
C7_Witness ==
    /\ ready_count = 1
    /\ observers["mesh_a"] = 1
    /\ observers["mesh_b"] = 1
    /\ observers["node_c"] = 0
    /\ drag.runs = 1

IsUnitLength(d) ==
    \/ d.len = "unit"
    \/ d.len = "raw" /\ d.f * d.y = 0 /\ d.f * d.f + d.r * d.r + d.y * d.y = 1

Axis(positive, negative, keys) ==
    (IF positive \in keys THEN 1 ELSE 0) - (IF negative \in keys THEN 1 ELSE 0)
CancellingOnly(keys) ==
    /\ Axis("KeyW", "KeyS", keys) = 0
    /\ Axis("KeyD", "KeyA", keys) = 0
    /\ Axis("KeyE", "KeyQ", keys) = 0

\* C10: in an engaged frame, for each combination of the six movement keys,
\* a non-zero sum (W/S on forward, D/A on right, E/Q on world Y) displaces the
\* camera along it by a vector of length exactly 5.0 * elapsed seconds, however
\* many keys are held; a zero sum (no key, or only opposite pairs) is not
\* normalised and leaves the position as it is.
C10_MovementNormalised ==
    [][(/\ Completed
        /\ primary_window'.exists
        /\ Engaged(primary_window')
        /\ camera.exists) =>
          LET keys == keyboard_input'
              before == camera.transform.translation
              after == camera'.transform.translation
          IN IF CancellingOnly(keys) THEN after = before
             ELSE /\ after.origin = before.origin
                  /\ Len(after.moves) = Len(before.moves) + 1
                  /\ SubSeq(after.moves, 1, Len(before.moves)) = before.moves
                  /\ LET move == after.moves[Len(after.moves)] IN
                        /\ move.dist = 5 * time'
                        /\ IsUnitLength(move.dir)
                        /\ move.dir.len # "nan"
                        /\ move.dir.f = Axis("KeyW", "KeyS", keys)
                        /\ move.dir.r = Axis("KeyD", "KeyA", keys)
                        /\ move.dir.y = Axis("KeyE", "KeyQ", keys)
                        /\ move.basis = camera.transform.rotation]_vars

\* Three keys at once in an engaged frame: one displacement of unit direction.
C10_Witness ==
    /\ frame > 0
    /\ Engaged(primary_window)
    /\ keyboard_input = {"KeyW", "KeyD", "KeyE"}
    /\ Len(camera.transform.translation.moves) = 1
    /\ camera.transform.translation.moves[1].dir = [f |-> 1, r |-> 1, y |-> 1, len |-> "unit"]
    /\ camera.transform.translation.moves[1].dist = 5 * time

====
